---- MODULE Spec2Model ----
(***************************************************************************)
(* Model of gmsad/salt.py: the Kerberos AS-REQ probe that retrieves the    *)
(* salt of a principal (send_as_req, get_salt_from_rep,                    *)
(* get_salt_from_preauth) and the offline heuristic                        *)
(* (get_salt_from_heuristic).                                              *)
(*                                                                         *)
(* A text is a sequence of one-character strings, a byte string is a       *)
(* sequence of integers in 0..255.  One behaviour of the model is one      *)
(* top-level call of one of the four functions.                            *)
(***************************************************************************)
EXTENDS Integers, Sequences, FiniteSets, TLC

\* ------------------------------------------------------------------ bounds
\* PaData entries in one e-data / padata list.
MaxPaData == 2
\* ETYPE-INFO2 entries in one reply, over all its PaData values.
MaxTotal == 2
\* Characters of an account name or realm.
MaxName == 3
\* Bytes of a reply body on the wire.
MaxBody == 3

\* ------------------------------------------------------- program constants
AS_REQ_TAG_NUMBER == 10
AS_REP_TAG_NUMBER == 11
KRB_ERROR_TAG_NUMBER == 30
KDC_ERR_PREAUTH_REQUIRED == 25
PA_ETYPE_INFO2 == 19
AES128_CTS_HMAC_SHA1_96_ENC_TYPE == 17
AES256_CTS_HMAC_SHA1h96_ENC_TYPE == 18
\* s.recv(1024) of the UDP mode
UDP_RECV_BUFSIZE == 1024
\* s.recv(4) of the TCP mode
TCP_PREFIX_SIZE == 4

\* ------------------------------------------------------------------- texts
NoneText == <<"N", "o", "n", "e">>
\* str() of asn1crypto's Void object (its repr, whose id() part is left out)
VoidText == <<"<", "V", "o", "i", "d", ">">>
HostText == <<"h", "o", "s", "t">>

RECURSIVE SeqsOf(_, _)
\* The sequences of exactly n elements of S.
SeqsOf(S, n) ==
    IF n = 0 THEN {<<>>}
    ELSE {<<x>> \o s : x \in S, s \in SeqsOf(S, n - 1)}

SeqsUpTo(S, n) == UNION {SeqsOf(S, k) : k \in 0..n}

\* ------------------------------------------------- decoded view of a reply
\* An optional field is a sequence of length 0 (absent) or 1 (present).
Salts == {<<>>, << <<"A">> >>, << <<"B">> >>}
\* 23 (RC4-HMAC) stands for every etype that is neither AES128 nor AES256.
Etypes == {AES128_CTS_HMAC_SHA1_96_ENC_TYPE, AES256_CTS_HMAC_SHA1h96_ENC_TYPE, 23}

ETYPE_INFO2_ENTRY == [etype : Etypes, salt : Salts]

\* A PA-DATA: its type, whether its value decodes as an ETYPE-INFO2 list, and
\* the list it decodes to.  The value of a PA-DATA of another type (2,
\* PA-ENC-TIMESTAMP, stands for them) is opaque: the code never decodes it.
PaDataWith(k) ==
    IF k = 0
    THEN {[padata_type |-> 2, ok |-> FALSE, entries |-> <<>>],
          [padata_type |-> PA_ETYPE_INFO2, ok |-> FALSE, entries |-> <<>>],
          [padata_type |-> PA_ETYPE_INFO2, ok |-> TRUE, entries |-> <<>>]}
    ELSE {[padata_type |-> PA_ETYPE_INFO2, ok |-> TRUE, entries |-> es] :
             es \in SeqsOf(ETYPE_INFO2_ENTRY, k)}

\* A reply as the decoders see it:
\*   outerOk     Any.load parses the outer tag and length
\*   tag         the outer tag number
\*   bodyOk      the bytes decode as the structure the tag names
\*   error_code  KRB-ERROR's error-code (0 in an AS-REP)
\*   present     e-data (KRB-ERROR) or padata (AS-REP) is present
\*   listOk      e-data's bytes decode as a list of PA-DATA
\*   list        the PA-DATA list
Reply(outerOk, tag, bodyOk, code, present, listOk, list) ==
    [outerOk |-> outerOk, tag |-> tag, bodyOk |-> bodyOk, error_code |-> code,
     present |-> present, listOk |-> listOk, list |-> list]

GarbageReply == Reply(FALSE, 0, FALSE, 0, FALSE, FALSE, <<>>)

\* 6 (KDC_ERR_C_PRINCIPAL_UNKNOWN) stands for every other error code.
ErrorCodes == {KDC_ERR_PREAUTH_REQUIRED, 6}

\* 16 is a bare SEQUENCE; 10 is an AS-REQ echoed back.
OtherTags == {AS_REQ_TAG_NUMBER, 16}

\* The replies without a PA-DATA list: the outer tag and length do not parse,
\* the tag is another one, the body does not decode, e-data or padata is
\* absent, e-data's bytes are no PA-DATA list.
ListlessReplies ==
    {GarbageReply}
    \cup {Reply(TRUE, t, FALSE, 0, FALSE, FALSE, <<>>) :
             t \in OtherTags \cup {KRB_ERROR_TAG_NUMBER, AS_REP_TAG_NUMBER}}
    \cup {Reply(TRUE, KRB_ERROR_TAG_NUMBER, TRUE, c, FALSE, FALSE, <<>>) : c \in ErrorCodes}
    \cup {Reply(TRUE, KRB_ERROR_TAG_NUMBER, TRUE, c, TRUE, FALSE, <<>>) : c \in ErrorCodes}
    \cup {Reply(TRUE, AS_REP_TAG_NUMBER, TRUE, 0, FALSE, FALSE, <<>>)}

\* ------------------------------------------------------ get_salt_from_rep
\* What a call ends with: a returned value, or a raised exception.  msg_tag is
\* the tag number in the exception's message (-1: the message holds none);
\* loaded names the structure the body was decoded as ("" when it was not).
Returned(v, loaded) ==
    [kind |-> "return", value |-> v, exc |-> "", msg_tag |-> -1, loaded |-> loaded]

Raised(exc, tag, loaded) ==
    [kind |-> "raise", value |-> <<>>, exc |-> exc, msg_tag |-> tag, loaded |-> loaded]

NoResult == [kind |-> "none", value |-> <<>>, exc |-> "", msg_tag |-> -1, loaded |-> ""]

\* str(x.native): the native value of an absent optional field is None.
StrNative(salt) == IF salt = <<>> THEN NoneText ELSE salt[1]

\* str(x): an absent optional field is the Void object, a present
\* KerberosString decodes to its text.
StrValue(salt) == IF salt = <<>> THEN VoidText ELSE salt[1]

RECURSIVE EtypeLoop(_, _, _)
\* The inner for loop: the index of the first entry from j on whose etype is
\* accepted, 0 when the loop ends without one.
EtypeLoop(entries, j, accepted) ==
    IF j > Len(entries) THEN 0
    ELSE IF entries[j].etype \in accepted THEN j
    ELSE EtypeLoop(entries, j + 1, accepted)

\* Variant: the KRB-ERROR path accepting AES128 entries as the AS-REP path does.
KrbErrorEtypesWide == {AES256_CTS_HMAC_SHA1h96_ENC_TYPE, AES128_CTS_HMAC_SHA1_96_ENC_TYPE}
\* The etypes the KRB-ERROR path returns the salt of.
KrbErrorEtypes == {AES256_CTS_HMAC_SHA1h96_ENC_TYPE}

\* Variant: the AS-REP path accepting AES256 entries only.
AsRepEtypesNarrow == {AES256_CTS_HMAC_SHA1h96_ENC_TYPE}
\* The etypes the AS-REP path returns the salt of.
AsRepEtypes == {AES256_CTS_HMAC_SHA1h96_ENC_TYPE, AES128_CTS_HMAC_SHA1_96_ENC_TYPE}

\* Variant: the scan stops at the first ETYPE-INFO2 PA-DATA.
NextPaDataStop(list, i) ==
    IF list[i].padata_type = PA_ETYPE_INFO2 THEN Len(list) + 1 ELSE i + 1
\* The PA-DATA the outer for loop goes on with after list[i] returned nothing.
NextPaData(list, i) == i + 1

RECURSIVE KrbErrorLoop(_, _)
\* The outer for loop of the KRB-ERROR path from list[i] on: the call's
\* result, or NoResult when the loop ends and control falls to the raise.
KrbErrorLoop(list, i) ==
    IF i > Len(list) THEN NoResult
    ELSE IF list[i].padata_type # PA_ETYPE_INFO2 THEN KrbErrorLoop(list, NextPaData(list, i))
    ELSE IF ~list[i].ok THEN Raised("ValueError", -1, "KRB_ERROR")
    ELSE LET j == EtypeLoop(list[i].entries, 1, KrbErrorEtypes)
         IN  IF j # 0
             THEN Returned(StrNative(list[i].entries[j].salt), "KRB_ERROR")
             ELSE KrbErrorLoop(list, NextPaData(list, i))

RECURSIVE AsRepLoop(_, _)
\* The outer for loop of the AS-REP path from list[i] on.
AsRepLoop(list, i) ==
    IF i > Len(list) THEN NoResult
    ELSE IF list[i].padata_type # PA_ETYPE_INFO2 THEN AsRepLoop(list, i + 1)
    ELSE IF ~list[i].ok THEN Raised("ValueError", -1, "KRB_AS_REP")
    ELSE LET j == EtypeLoop(list[i].entries, 1, AsRepEtypes)
         IN  IF j # 0
             THEN Returned(StrValue(list[i].entries[j].salt), "KRB_AS_REP")
             ELSE AsRepLoop(list, i + 1)

\* Variant: the error code is not looked at.
IsPreauthRequiredAny(error_code) == TRUE
\* if error_code == KDC_ERR_PREAUTH_REQUIRED
IsPreauthRequired(error_code) == error_code = KDC_ERR_PREAUTH_REQUIRED

\* Variant: a plain else, every tag but 30 taken for an AS-REP.
IsAsRepTagElse(tag) == tag # KRB_ERROR_TAG_NUMBER
\* elif tag == AS_REP_TAG_NUMBER
IsAsRepTag(tag) == tag = AS_REP_TAG_NUMBER

\* raise Exception("Could not retrieve salt from AS_REP (tag number %d)" % tag)
CouldNotRetrieve(tag, loaded) == Raised("Exception", tag, loaded)

KrbErrorBranch(rep) ==
    IF ~rep.bodyOk THEN Raised("ValueError", -1, "KRB_ERROR")
    ELSE IF ~IsPreauthRequired(rep.error_code) THEN CouldNotRetrieve(rep.tag, "KRB_ERROR")
    \* PA_DATA_SEQUENCE_OF.load(None)
    ELSE IF ~rep.present THEN Raised("TypeError", -1, "KRB_ERROR")
    ELSE IF ~rep.listOk THEN Raised("ValueError", -1, "KRB_ERROR")
    ELSE LET r == KrbErrorLoop(rep.list, 1)
         IN  IF r # NoResult THEN r ELSE CouldNotRetrieve(rep.tag, "KRB_ERROR")

AsRepBranch(rep) ==
    IF ~rep.bodyOk THEN Raised("ValueError", -1, "KRB_AS_REP")
    \* for padata in None
    ELSE IF ~rep.present THEN Raised("TypeError", -1, "KRB_AS_REP")
    ELSE LET r == AsRepLoop(rep.list, 1)
         IN  IF r # NoResult THEN r ELSE CouldNotRetrieve(rep.tag, "KRB_AS_REP")

get_salt_from_rep(rep) ==
    IF ~rep.outerOk THEN Raised("ValueError", -1, "")
    ELSE IF rep.tag = KRB_ERROR_TAG_NUMBER THEN KrbErrorBranch(rep)
    ELSE IF IsAsRepTag(rep.tag) THEN AsRepBranch(rep)
    ELSE CouldNotRetrieve(rep.tag, "")

\* ------------------------------------------------ get_salt_from_heuristic
AccountChars == {"S", "c", "$"}
RealmChars == {"e", "C", "."}

\* str.upper and str.lower, character by character.
UpperChar(c) == CASE c = "e" -> "E" [] c = "c" -> "C" [] c = "s" -> "S" [] OTHER -> c
LowerChar(c) == CASE c = "E" -> "e" [] c = "C" -> "c" [] c = "S" -> "s" [] OTHER -> c

upper(t) == [i \in 1..Len(t) |-> UpperChar(t[i])]
lower(t) == [i \in 1..Len(t) |-> LowerChar(t[i])]

RECURSIVE rstrip(_, _)
\* str.rstrip(c): t without its trailing run of c.
rstrip(t, c) ==
    IF t # <<>> /\ t[Len(t)] = c THEN rstrip(SubSeq(t, 1, Len(t) - 1), c) ELSE t

get_salt_from_heuristic(sam_account_name, domain) ==
    upper(domain) \o HostText \o rstrip(sam_account_name, "$") \o <<".">> \o lower(domain)

\* ---------------------------------------------------------------- the wire
Min(a, b) == IF a < b THEN a ELSE b

\* struct.pack('!i', n) for n >= 0: four octets, most significant first.
pack(n) == <<(n \div 16777216) % 256, (n \div 65536) % 256, (n \div 256) % 256, n % 256>>

\* struct.unpack('!i', b)[0]: struct.error unless b holds exactly four octets;
\* the value is a signed 32-bit integer.
unpack(b) ==
    IF Len(b) # TCP_PREFIX_SIZE THEN [ok |-> FALSE, value |-> 0]
    ELSE [ok |-> TRUE,
          value |-> (IF b[1] >= 128 THEN b[1] - 256 ELSE b[1]) * 16777216
                    + b[2] * 65536 + b[3] * 256 + b[4]]

\* What one s.recv(bufsize) on the stream socket may return when `stream` is
\* all the peer still delivers before it closes: at least one octet and at
\* most bufsize of those that have arrived, b'' at end of stream.
Recv(stream, bufsize) ==
    IF bufsize = 0 \/ stream = <<>> THEN {<<>>}
    ELSE {SubSeq(stream, 1, j) : j \in 1..Min(bufsize, Len(stream))}

\* The identifier octets of an AS-REP (0x6B) and a KRB-ERROR (0x7E), and two
\* octets that are neither.
BodyOctets == {0, 1, 107, 126}

\* The KDC: the octets of its reply, and the length prefix it puts before them
\* on a stream (the right one, one that promises an octet too many, a negative
\* one, a truncated one).
Prefixes(body) == {pack(Len(body)), pack(Len(body) + 1), <<255, 255, 255, 255>>, <<0, 0>>}

Peers(is_udp) ==
    UNION {{[prefix |-> IF is_udp THEN <<>> ELSE p, body |-> b] : p \in Prefixes(b)} :
              b \in SeqsUpTo(BodyOctets, MaxBody)}

ETypeInfo2Value(entries) == [padata_type |-> PA_ETYPE_INFO2, ok |-> TRUE, entries |-> entries]

\* The replies the octets on the wire stand for.  A message is an identifier
\* octet (class * 64 + 32 + tag number), a length octet and the contents; the
\* contents <<0>> and <<1>> each stand for one body, all others do not decode.
Load(bytes) ==
    IF Len(bytes) < 2 \/ Len(bytes) < 2 + bytes[2] THEN GarbageReply
    ELSE LET tag == bytes[1] % 32
             application == bytes[1] \div 64 = 1
             contents == SubSeq(bytes, 3, 2 + bytes[2])
         IN  IF ~application \/ contents \notin {<<0>>, <<1>>}
             THEN Reply(TRUE, tag, FALSE, 0, FALSE, FALSE, <<>>)
             ELSE IF tag = KRB_ERROR_TAG_NUMBER
             THEN IF contents = <<0>>
                  THEN Reply(TRUE, tag, TRUE, KDC_ERR_PREAUTH_REQUIRED, TRUE, TRUE,
                             <<ETypeInfo2Value(<<[etype |-> AES256_CTS_HMAC_SHA1h96_ENC_TYPE,
                                                  salt |-> << <<"A">> >>]>>)>>)
                  ELSE Reply(TRUE, tag, TRUE, 6, FALSE, FALSE, <<>>)
             ELSE IF contents = <<0>>
                  THEN Reply(TRUE, tag, TRUE, 0, TRUE, TRUE,
                             <<ETypeInfo2Value(<<[etype |-> AES128_CTS_HMAC_SHA1_96_ENC_TYPE,
                                                  salt |-> << <<"A">> >>],
                                                 [etype |-> AES256_CTS_HMAC_SHA1h96_ENC_TYPE,
                                                  salt |-> << <<"B">> >>]>>)>>)
                  ELSE Reply(TRUE, tag, TRUE, 0, FALSE, FALSE, <<>>)

\* ------------------------------------------------------------------- state
VARIABLES
    op,                \* the function called
    pc,                \* where the call is
    kdc_rep,           \* get_salt_from_rep's argument
    sam_account_name,  \* get_salt_from_heuristic's arguments
    domain,
    udp,               \* send_as_req's udp argument
    peer,              \* what the KDC answers
    sock,              \* the socket s: "none", "open" or "closed"
    stream,            \* the octets the stream socket has yet to deliver
    response_length,
    data,              \* the bytes send_as_req returned to get_salt_from_preauth
    result,            \* what the call ended with
    called,            \* the functions entered during the call
    nsock,             \* sockets created,
    nconnect,          \* connections opened,
    nsend              \* and sendall calls made during the call

vars == <<op, pc, kdc_rep, sam_account_name, domain, udp, peer, sock, stream,
          response_length, data, result, called, nsock, nconnect, nsend>>

NoPeer == [prefix |-> <<>>, body |-> <<>>]

RECURSIVE ReplyWithList(_, _, _, _, _)
\* kdc_rep is a reply of this tag and error code whose PA-DATA list is `list`
\* followed by at most n more PA-DATA holding at most t ETYPE-INFO2 entries.
ReplyWithList(tag, code, n, t, list) ==
    \/ kdc_rep = Reply(TRUE, tag, TRUE, code, TRUE, TRUE, list)
    \/ /\ n > 0
       /\ \E k \in 0..t : \E p \in PaDataWith(k) :
             ReplyWithList(tag, code, n - 1, t - k, Append(list, p))

Init ==
    /\ pc = "call"
    /\ sock = "none"
    /\ stream = <<>>
    /\ response_length = 0
    /\ data = <<>>
    /\ result = NoResult
    /\ nsock = 0
    /\ nconnect = 0
    /\ nsend = 0
    /\ \/ /\ op = "get_salt_from_rep"
          /\ \/ kdc_rep \in ListlessReplies
             \/ \E c \in ErrorCodes :
                   ReplyWithList(KRB_ERROR_TAG_NUMBER, c, MaxPaData, MaxTotal, <<>>)
             \/ ReplyWithList(AS_REP_TAG_NUMBER, 0, MaxPaData, MaxTotal, <<>>)
          /\ sam_account_name = <<>> /\ domain = <<>> /\ udp = FALSE /\ peer = NoPeer
       \/ /\ op = "get_salt_from_heuristic"
          /\ sam_account_name \in SeqsUpTo(AccountChars, MaxName)
          /\ domain \in SeqsUpTo(RealmChars, MaxName)
          /\ kdc_rep = GarbageReply /\ udp = FALSE /\ peer = NoPeer
       \/ /\ op = "send_as_req"
          /\ udp \in BOOLEAN
          /\ peer \in Peers(udp)
          /\ kdc_rep = GarbageReply /\ sam_account_name = <<>> /\ domain = <<>>
       \/ /\ op = "get_salt_from_preauth"
          /\ udp = FALSE
          /\ peer \in Peers(FALSE)
          /\ kdc_rep = GarbageReply /\ sam_account_name = <<>> /\ domain = <<>>
    /\ called = {op}

Inputs == <<op, kdc_rep, sam_account_name, domain, udp, peer>>

\* ----------------------------------------------------- leaving send_as_req
\* Variant: s.close() before the return instead of a with statement.
WithExitOnReturnOnly(s, raised) == IF raised THEN s ELSE "closed"
\* The with statement's exit: socket.__exit__ closes s, an exception or not.
WithExit(s, raised) == "closed"

\* Variant: get_salt_from_preauth starting over on an exception.
AfterRaiseRetry(o) == IF o = "get_salt_from_preauth" THEN "call" ELSE "done"
\* No function of the module catches an exception: it ends the call.
AfterRaise(o) == "done"

\* An exception raised inside the with block.
Raise(exc) ==
    /\ sock' = WithExit(sock, TRUE)
    /\ pc' = AfterRaise(op)
    /\ result' = Raised(exc, -1, "")
    /\ UNCHANGED data

\* return <bytes> inside the with block; get_salt_from_preauth hands the bytes
\* to get_salt_from_rep.
Return(bytes) ==
    /\ sock' = WithExit(sock, FALSE)
    /\ IF op = "send_as_req"
       THEN pc' = "done" /\ result' = Returned(bytes, "") /\ UNCHANGED data
       ELSE pc' = "interpret" /\ data' = bytes /\ UNCHANGED result

\* ----------------------------------------------------------------- actions
GetSaltFromRep ==
    /\ op = "get_salt_from_rep" /\ pc = "call"
    /\ result' = get_salt_from_rep(kdc_rep)
    /\ pc' = "done"
    /\ UNCHANGED <<Inputs, sock, stream, response_length, data, called, nsock, nconnect, nsend>>

GetSaltFromHeuristic ==
    /\ op = "get_salt_from_heuristic" /\ pc = "call"
    /\ result' = Returned(get_salt_from_heuristic(sam_account_name, domain), "")
    /\ pc' = "done"
    /\ UNCHANGED <<Inputs, sock, stream, response_length, data, called, nsock, nconnect, nsend>>

\* socket.socket(...) as s
Socket ==
    /\ op \in {"send_as_req", "get_salt_from_preauth"} /\ pc = "call"
    /\ sock' = "open"
    /\ nsock' = nsock + 1
    /\ called' = called \cup {"send_as_req"}
    /\ pc' = "connect"
    /\ UNCHANGED <<Inputs, stream, response_length, data, result, nconnect, nsend>>

\* s.connect((dc, KERBEROS_PORT))
Connect ==
    /\ pc = "connect"
    /\ nconnect' = nconnect + 1
    /\ stream' = peer.prefix \o peer.body
    /\ pc' = "sendall"
    /\ UNCHANGED <<Inputs, sock, response_length, data, result, called, nsock, nsend>>

ConnectError ==
    /\ pc = "connect"
    /\ Raise("OSError")
    /\ UNCHANGED <<Inputs, stream, response_length, called, nsock, nconnect, nsend>>

\* s.sendall(...) of the request build_as_req made
SendAll ==
    /\ pc = "sendall"
    /\ nsend' = nsend + 1
    /\ called' = called \cup {"build_as_req"}
    /\ pc' = IF udp THEN "recv" ELSE "recv_len"
    /\ UNCHANGED <<Inputs, sock, stream, response_length, data, result, nsock, nconnect>>

SendAllError ==
    /\ pc = "sendall"
    /\ nsend' = nsend + 1
    /\ called' = called \cup {"build_as_req"}
    /\ Raise("OSError")
    /\ UNCHANGED <<Inputs, stream, response_length, nsock, nconnect>>

\* return s.recv(1024) after s.settimeout(10)
UdpRecv ==
    /\ pc = "recv"
    /\ Return(SubSeq(peer.body, 1, Min(UDP_RECV_BUFSIZE, Len(peer.body))))
    /\ UNCHANGED <<Inputs, stream, response_length, called, nsock, nconnect, nsend>>

\* no datagram within the timeout
UdpTimeout ==
    /\ pc = "recv"
    /\ Raise("timeout")
    /\ UNCHANGED <<Inputs, stream, response_length, called, nsock, nconnect, nsend>>

\* response_length = struct.unpack('!i', s.recv(4))[0]
TcpRecvLength ==
    /\ pc = "recv_len"
    /\ \E chunk \in Recv(stream, TCP_PREFIX_SIZE) :
          IF unpack(chunk).ok
          THEN /\ response_length' = unpack(chunk).value
               /\ stream' = SubSeq(stream, Len(chunk) + 1, Len(stream))
               /\ pc' = "recv_body"
               /\ UNCHANGED <<sock, data, result>>
          ELSE /\ Raise("struct.error")
               /\ UNCHANGED <<stream, response_length>>
    /\ UNCHANGED <<Inputs, called, nsock, nconnect, nsend>>

\* return s.recv(response_length)
TcpRecvBody ==
    /\ pc = "recv_body"
    /\ IF response_length < 0
       THEN Raise("ValueError") /\ UNCHANGED stream
       ELSE \E chunk \in Recv(stream, response_length) :
               /\ Return(chunk)
               /\ stream' = SubSeq(stream, Len(chunk) + 1, Len(stream))
    /\ UNCHANGED <<Inputs, response_length, called, nsock, nconnect, nsend>>

\* a recv on the stream socket fails (the connection is reset)
TcpRecvError ==
    /\ pc \in {"recv_len", "recv_body"}
    /\ Raise("OSError")
    /\ UNCHANGED <<Inputs, stream, response_length, called, nsock, nconnect, nsend>>

\* get_salt_from_preauth: return get_salt_from_rep(<what send_as_req returned>)
Interpret ==
    /\ pc = "interpret"
    /\ called' = called \cup {"get_salt_from_rep"}
    /\ result' = get_salt_from_rep(Load(data))
    /\ pc' = "done"
    /\ UNCHANGED <<Inputs, sock, stream, response_length, data, nsock, nconnect, nsend>>

Next ==
    \/ GetSaltFromRep
    \/ GetSaltFromHeuristic
    \/ Socket
    \/ Connect
    \/ ConnectError
    \/ SendAll
    \/ SendAllError
    \/ UdpRecv
    \/ UdpTimeout
    \/ TcpRecvLength
    \/ TcpRecvBody
    \/ TcpRecvError
    \/ Interpret

Spec == Init /\ [][Next]_vars

\* ------------------------------------------------------ the claims' terms
\* The call of get_salt_from_rep is over: the reply it was given.
Interpreted ==
    /\ pc = "done"
    /\ \/ op = "get_salt_from_rep"
       \/ op = "get_salt_from_preauth" /\ "get_salt_from_rep" \in called

TheReply == IF op = "get_salt_from_rep" THEN kdc_rep ELSE Load(data)

\* A KRB-ERROR with error-code 25 whose e-data decodes to a PA-DATA list.
PreauthRequiredReply(rep) ==
    /\ rep.outerOk /\ rep.tag = KRB_ERROR_TAG_NUMBER /\ rep.bodyOk
    /\ rep.error_code = KDC_ERR_PREAUTH_REQUIRED
    /\ rep.present /\ rep.listOk

\* An AS-REP whose padata is present.
AsRepWithPadata(rep) ==
    rep.outerOk /\ rep.tag = AS_REP_TAG_NUMBER /\ rep.bodyOk /\ rep.present

IsEtypeInfo2(p) == p.padata_type = PA_ETYPE_INFO2

\* The places <<i, j>> of the ETYPE-INFO2 entries of a PA-DATA list whose etype
\* is in `accepted`, and their list order.
Matches(list, accepted) ==
    UNION {{<<i, j>> : j \in {k \in 1..Len(list[i].entries) :
                                 list[i].entries[k].etype \in accepted}} :
              i \in {k \in 1..Len(list) : IsEtypeInfo2(list[k]) /\ list[k].ok}}

Before(p, q) == p[1] < q[1] \/ (p[1] = q[1] /\ p[2] < q[2])

FirstMatch(list, accepted) ==
    CHOOSE p \in Matches(list, accepted) :
        \A q \in Matches(list, accepted) : q = p \/ Before(p, q)

SaltAt(list, p) == list[p[1]].entries[p[2]].salt

\* An ETYPE-INFO2 PA-DATA before list[i] whose value does not decode.
UndecodableBefore(list, i) ==
    \E k \in 1..(i - 1) : IsEtypeInfo2(list[k]) /\ ~list[k].ok

\* The first match exists and the scan reaches it.
Reaches(list, accepted) ==
    /\ Matches(list, accepted) # {}
    /\ ~UndecodableBefore(list, FirstMatch(list, accepted)[1])

C2_AbsentSaltFails ==
    Interpreted =>
        LET list == TheReply.list
            both == {AES256_CTS_HMAC_SHA1h96_ENC_TYPE, AES128_CTS_HMAC_SHA1_96_ENC_TYPE}
            only == {AES256_CTS_HMAC_SHA1h96_ENC_TYPE}
        IN  /\ PreauthRequiredReply(TheReply) /\ Reaches(list, only)
                  /\ SaltAt(list, FirstMatch(list, only)) = <<>>
               => result.kind = "raise"
            /\ AsRepWithPadata(TheReply) /\ Reaches(list, both)
                  /\ SaltAt(list, FirstMatch(list, both)) = <<>>
               => result.kind = "raise"

\* C3: on an AS-REP whose padata is present, a returned value is the salt of
\* the first entry in list order whose etype is AES256 (18) or AES128 (17),
\* and that entry's salt is returned whenever the entry exists and the values
\* before it decode.
C3_AsRepFirstAes ==
    Interpreted /\ AsRepWithPadata(TheReply) =>
        LET list == TheReply.list
            both == {AES256_CTS_HMAC_SHA1h96_ENC_TYPE, AES128_CTS_HMAC_SHA1_96_ENC_TYPE}
        IN  /\ result.kind = "return" =>
                  /\ Matches(list, both) # {}
                  /\ SaltAt(list, FirstMatch(list, both)) # <<>> =>
                        result.value = SaltAt(list, FirstMatch(list, both))[1]
            /\ Reaches(list, both) => result.kind = "return"

\* [{AES128, "A"}, {AES256, "B"}] gives "A".
C3_Witness ==
    /\ Interpreted /\ op = "get_salt_from_rep" /\ AsRepWithPadata(kdc_rep)
    /\ Len(kdc_rep.list) = 1
    /\ kdc_rep.list[1].entries =
          <<[etype |-> AES128_CTS_HMAC_SHA1_96_ENC_TYPE, salt |-> << <<"A">> >>],
            [etype |-> AES256_CTS_HMAC_SHA1h96_ENC_TYPE, salt |-> << <<"B">> >>]>>
    /\ result = Returned(<<"A">>, "KRB_AS_REP")

\* C4: a KRB-ERROR whose error-code is not 25 makes get_salt_from_rep fail,
\* whatever e-data holds.
C4_OtherErrorCodeFails ==
    Interpreted /\ TheReply.outerOk /\ TheReply.tag = KRB_ERROR_TAG_NUMBER
                /\ TheReply.bodyOk /\ TheReply.error_code # KDC_ERR_PREAUTH_REQUIRED
        => result.kind = "raise"

\* The error code is 6 and e-data holds an AES256 entry with a salt.
C4_Witness ==
    /\ Interpreted /\ op = "get_salt_from_rep"
    /\ kdc_rep.outerOk /\ kdc_rep.tag = KRB_ERROR_TAG_NUMBER /\ kdc_rep.bodyOk
    /\ kdc_rep.error_code = 6 /\ kdc_rep.present /\ kdc_rep.listOk
    /\ Matches(kdc_rep.list, {AES256_CTS_HMAC_SHA1h96_ENC_TYPE}) # {}
    /\ SaltAt(kdc_rep.list, FirstMatch(kdc_rep.list, {AES256_CTS_HMAC_SHA1h96_ENC_TYPE})) # <<>>
    /\ result.kind = "raise"

\* C5: a reply whose outer tag number is neither 11 nor 30 makes
\* get_salt_from_rep fail without decoding the body, with an exception whose
\* message holds the tag number.
C5_OtherTagFails ==
    Interpreted /\ TheReply.outerOk
                /\ TheReply.tag \notin {AS_REP_TAG_NUMBER, KRB_ERROR_TAG_NUMBER}
        => result = Raised("Exception", TheReply.tag, "")

\* The reply is an AS-REQ (tag 10).
C5_Witness ==
    /\ Interpreted /\ op = "get_salt_from_rep"
    /\ kdc_rep.outerOk /\ kdc_rep.tag = AS_REQ_TAG_NUMBER
    /\ result = Raised("Exception", AS_REQ_TAG_NUMBER, "")

\* a with a single trailing '$' removed.
StripOne(a) ==
    IF a # <<>> /\ a[Len(a)] = "$" THEN SubSeq(a, 1, Len(a) - 1) ELSE a

\* C6: get_salt_from_heuristic(a, r) returns uppercase(r) ++ "host" ++ a' ++ "."
\* ++ lowercase(r), a' being a with exactly one trailing '$' removed.
C6_HeuristicStripsOne ==
    op = "get_salt_from_heuristic" /\ pc = "done" =>
        result = Returned(upper(domain) \o HostText \o StripOne(sam_account_name)
                             \o <<".">> \o lower(domain), "")

\* C7: in TCP mode, against a peer that sends the 4-octet length of its reply
\* and then the reply, send_as_req returns exactly the reply's octets, however
\* the stream delivers them (no connection error occurring).
C7_TcpReturnsWholeBody ==
    /\ op = "send_as_req" /\ ~udp /\ pc = "done"
    /\ peer.prefix = pack(Len(peer.body))
    /\ result.exc # "OSError"
    => result = Returned(peer.body, "")

\* C8: when send_as_req has ended, by a return or by an exception, in either
\* mode, the socket it created is closed.
C8_SocketClosedAtExit ==
    /\ pc \in {"done", "interpret"} => sock # "open"
    /\ pc \in {"done", "interpret"} /\ nsock > 0 => sock = "closed"
    /\ nsock <= 1

\* The length prefix was short (struct.error) and the socket is closed.
C8_Witness ==
    /\ op = "send_as_req" /\ ~udp /\ pc = "done"
    /\ result.exc = "struct.error"
    /\ nsock = 1 /\ sock = "closed"

FirstEtypeInfo2(list) ==
    IF \E k \in 1..Len(list) : IsEtypeInfo2(list[k])
    THEN CHOOSE k \in 1..Len(list) :
            IsEtypeInfo2(list[k]) /\ \A m \in 1..(k - 1) : ~IsEtypeInfo2(list[m])
    ELSE 0

\* The first ETYPE-INFO2 PA-DATA decodes and holds no AES256 entry.
FirstHasNoAes256(list) ==
    /\ FirstEtypeInfo2(list) # 0
    /\ list[FirstEtypeInfo2(list)].ok
    /\ \A j \in 1..Len(list[FirstEtypeInfo2(list)].entries) :
          list[FirstEtypeInfo2(list)].entries[j].etype # AES256_CTS_HMAC_SHA1h96_ENC_TYPE

\* C10 as stated: on the KRB-ERROR path only the first ETYPE-INFO2 PA-DATA is
\* examined: when that one holds no AES256 entry the call fails, even when a
\* later ETYPE-INFO2 PA-DATA holds an AES256 entry with a salt.
C10_OnlyFirstEtypeInfo2 ==
    LET list == TheReply.list
        only == {AES256_CTS_HMAC_SHA1h96_ENC_TYPE}
    IN  /\ Interpreted /\ PreauthRequiredReply(TheReply) /\ FirstHasNoAes256(list)
        /\ Matches(list, only) # {}
        /\ SaltAt(list, FirstMatch(list, only)) # <<>>
        => result.kind = "raise"

\* C10 as amended: on the KRB-ERROR path, when the first ETYPE-INFO2 PA-DATA
\* holds no AES256 entry the scan goes on with the later ones: the call returns
\* the salt of the first AES256 entry of a later ETYPE-INFO2 PA-DATA (when that
\* entry has one), and fails when a value before it does not decode or when no
\* ETYPE-INFO2 PA-DATA holds an AES256 entry.
C10_ScansEveryEtypeInfo2 ==
    Interpreted /\ PreauthRequiredReply(TheReply) /\ FirstHasNoAes256(TheReply.list) =>
        LET list == TheReply.list
            only == {AES256_CTS_HMAC_SHA1h96_ENC_TYPE}
        IN  /\ Reaches(list, only) /\ SaltAt(list, FirstMatch(list, only)) # <<>> =>
                  result = Returned(SaltAt(list, FirstMatch(list, only))[1], "KRB_ERROR")
            /\ ~Reaches(list, only) => result.kind = "raise"

\* The first ETYPE-INFO2 holds only an AES128 entry, the second an AES256 one.
C10_Witness ==
    /\ Interpreted /\ op = "get_salt_from_rep" /\ PreauthRequiredReply(kdc_rep)
    /\ Len(kdc_rep.list) = 2
    /\ kdc_rep.list[1].entries =
          <<[etype |-> AES128_CTS_HMAC_SHA1_96_ENC_TYPE, salt |-> << <<"A">> >>]>>
    /\ kdc_rep.list[2].entries =
          <<[etype |-> AES256_CTS_HMAC_SHA1h96_ENC_TYPE, salt |-> << <<"B">> >>]>>
    /\ result = Returned(<<"B">>, "KRB_ERROR")

====
